---------------------------- MODULE Spec2Model ----------------------------
(***************************************************************************)
(* pysnow.response.Response: the streaming interpreter of a ServiceNow     *)
(* JSON response.  The model follows src/pysnow/response.py line by line:  *)
(* the gate (_get_validated_response), the classifier (_parse_response),   *)
(* the chained lazy sequence (all) and the accessors (first, one, ...).    *)
(*                                                                         *)
(* JSON values are trees of one uniform shape                              *)
(*     [kind, val, items]   kind in {"map","array","string","number"}      *)
(* where items is a sequence of entries [key, v]; an array's entries carry *)
(* the key "".  Prefixes are Python strings, kept as TLA+ strings, so that *)
(* str.startswith is computed on characters as the code computes it.       *)
(***************************************************************************)
EXTENDS Integers, Sequences, FiniteSets, TLC

(***************************************************************************)
(* Bounds of the model.                                                    *)
(***************************************************************************)
\* longest `result` array among the documents
MaxItems == 2
\* accessor calls made on one Response object
MaxCalls == 2
MaxSessions == 3

(***************************************************************************)
(* Program constants.                                                      *)
(***************************************************************************)
StatusDeleted == 204
StatusNotFound == 404

(***************************************************************************)
(* JSON values.                                                            *)
(***************************************************************************)
Entry(k, v) == [key |-> k, v |-> v]
Scalar(k, s) == [kind |-> k, val |-> s, items |-> <<>>]
Map(entries) == [kind |-> "map", val |-> "", items |-> entries]
Arr(vals) == [kind |-> "array", val |-> "", items |-> [i \in 1..Len(vals) |-> Entry("", vals[i])]]
\* a name that is not bound yet (builder.value before any event, an empty body)
NoValue == Scalar("unset", "")
\* the literal {} of response.py lines 105 and 134
EmptyRecord == Map(<<>>)
\* the literal {'status': 'record deleted'} of line 123
DeletedRecord == Map(<<Entry("status", Scalar("string", "record deleted"))>>)

\* dict.__contains__ / dict.__getitem__ on a map value
HasKey(m, k) == m.kind = "map" /\ \E i \in 1..Len(m.items) : m.items[i].key = k
Get(m, k) == m.items[CHOOSE i \in 1..Len(m.items) : m.items[i].key = k].v

(***************************************************************************)
(* Python str operations used by the classifier.                           *)
(***************************************************************************)
StartsWith(s, p) == Len(s) >= Len(p) /\ SubSeq(s, 1, Len(p)) = p
\* '.'.join(path + [name]) as ijson builds a prefix
Join(prefix, name) == IF prefix = "" THEN name ELSE prefix \o "." \o name

(***************************************************************************)
(* The tokenizer: ijson.parse.  A document becomes the sequence of         *)
(* (prefix, event, value) triples in document order.                       *)
(***************************************************************************)
Ev(p, e, v) == [prefix |-> p, event |-> e, value |-> v]

RECURSIVE Tokenize(_, _)
RECURSIVE TokenizeEntries(_, _, _, _)
TokenizeEntries(v, prefix, i, acc) ==
    IF i > Len(v.items) THEN acc
    ELSE LET e == v.items[i]
             sub == IF v.kind = "map"
                    THEN <<Ev(prefix, "map_key", e.key)>> \o Tokenize(e.v, Join(prefix, e.key))
                    ELSE Tokenize(e.v, Join(prefix, "item"))
         IN TokenizeEntries(v, prefix, i + 1, acc \o sub)

Tokenize(v, prefix) ==
    IF v.kind = "map"
    THEN <<Ev(prefix, "start_map", "")>> \o TokenizeEntries(v, prefix, 1, <<>>)
              \o <<Ev(prefix, "end_map", "")>>
    ELSE IF v.kind = "array"
    THEN <<Ev(prefix, "start_array", "")>> \o TokenizeEntries(v, prefix, 1, <<>>)
              \o <<Ev(prefix, "end_array", "")>>
    ELSE IF v.kind = "unset" THEN <<>>
    ELSE <<Ev(prefix, v.kind, v.val)>>

\* ijson.parse(self._response.raw, ...): the events of the whole body
ijson_parse(body) == Tokenize(body, "")

(***************************************************************************)
(* ijson.common.ObjectBuilder.  `containers` is the stack of setters: each *)
(* names the container (by its path of entry indices below the root value) *)
(* that receives the next value; "init" is initial_set, which rebinds      *)
(* builder.value itself.                                                   *)
(***************************************************************************)
Setter(k, p) == [kind |-> k, path |-> p]
ObjectBuilder == [value |-> NoValue, containers |-> <<Setter("init", <<>>)>>, key |-> ""]

\* mappable[key] = value (an existing key keeps its place), or array.append
Insert(c, k, v) ==
    IF c.kind = "map" /\ HasKey(c, k)
    THEN [c EXCEPT !.items = [i \in 1..Len(c.items) |->
                                IF c.items[i].key = k THEN Entry(k, v) ELSE c.items[i]]]
    ELSE [c EXCEPT !.items = Append(c.items, Entry(IF c.kind = "map" THEN k ELSE "", v))]

\* where Insert puts the value
InsertIndex(c, k) ==
    IF c.kind = "map" /\ HasKey(c, k)
    THEN CHOOSE i \in 1..Len(c.items) : c.items[i].key = k
    ELSE Len(c.items) + 1

RECURSIVE SubTree(_, _)
SubTree(tree, path) ==
    IF path = <<>> THEN tree ELSE SubTree(tree.items[path[1]].v, Tail(path))

RECURSIVE SetIn(_, _, _, _)
SetIn(tree, path, k, v) ==
    IF path = <<>> THEN Insert(tree, k, v)
    ELSE [tree EXCEPT !.items[path[1]].v = SetIn(@, Tail(path), k, v)]

\* self.containers[-1](value): the new builder.value and the path of the value put
Top(b) == b.containers[Len(b.containers)]
Put(b, v) ==
    IF Top(b).kind = "init" THEN v
    ELSE SetIn(b.value, Top(b).path, b.key, v)
PutPath(b) ==
    IF Top(b).kind = "init" THEN <<>>
    ELSE Top(b).path \o <<InsertIndex(SubTree(b.value, Top(b).path), b.key)>>

\* the event binds builder.value to a new object (initial_set) instead of
\* changing the object it is bound to
Rebinds(b, event) ==
    /\ event \notin {"map_key", "end_map", "end_array"}
    /\ Top(b).kind = "init"

\* ObjectBuilder.event(event, value)
BuilderEvent(b, event, value) ==
    IF event = "map_key" THEN [b EXCEPT !.key = value]
    ELSE IF event = "start_map"
    THEN [b EXCEPT !.value = Put(b, Map(<<>>)),
                   !.containers = Append(@, Setter("map", PutPath(b)))]
    ELSE IF event = "start_array"
    THEN [b EXCEPT !.value = Put(b, Arr(<<>>)),
                   !.containers = Append(@, Setter("array", PutPath(b)))]
    ELSE IF event \in {"end_array", "end_map"}
    THEN [b EXCEPT !.containers = SubSeq(@, 1, Len(@) - 1)]
    ELSE [b EXCEPT !.value = Put(b, Scalar(event, value))]

(***************************************************************************)
(* The responses the model is started on.                                  *)
(***************************************************************************)
Num(s) == Scalar("number", s)
Str(s) == Scalar("string", s)
O1 == Map(<<Entry("a", Num("1"))>>)
O2 == Map(<<Entry("b", Map(<<Entry("c", Arr(<<Map(<<Entry("e", Num("2"))>>), Str("s")>>))>>)),
            Entry("d", Str("x"))>>)
Objects == {O1, O2}

RECURSIVE SeqsUpTo(_, _)
SeqsUpTo(S, n) ==
    IF n = 0 THEN {<<>>}
    ELSE LET shorter == SeqsUpTo(S, n - 1)
         IN shorter \cup {Append(q, x) : q \in {r \in shorter : Len(r) = n - 1}, x \in S}

ErrorObject(m, d) == Map(<<Entry("message", Str(m)), Entry("detail", Str(d))>>)
ErrorObjects == {ErrorObject(m, d) : m \in {"m", "n"}, d \in {"d", "e"}}

\* {"result": [o1, ..., on]} and {"result": {...}}
ArrayDocs == {Map(<<Entry("result", Arr(q))>>) : q \in SeqsUpTo(Objects, MaxItems)}
SingleDocs == {Map(<<Entry("result", o)>>) : o \in Objects \cup {EmptyRecord}}
\* {"error": {"message": m, "detail": d}}
ErrorDocs == {Map(<<Entry("error", e)>>) : e \in ErrorObjects}
\* roots that match no shape, and an empty body
OtherDocs ==
    { Map(<<Entry("unexpected", Num("1"))>>), Map(<<>>),
      Map(<<Entry("result", Num("1"))>>), Map(<<Entry("error", Str("failure"))>>),
      Map(<<Entry("result", Arr(<<Num("1"), Arr(<<O1>>)>>))>>), NoValue }
\* two root keys: a `result` and a sibling, in either order
ResultEntries == {Entry("result", O1), Entry("result", Arr(<<O1>>)), Entry("result", Arr(<<>>))}
SiblingEntries ==
    { Entry("error", ErrorObject("m", "d")), Entry("result2", O1), Entry("result.item", O1),
      Entry("result", O2), Entry("result", Arr(<<O2>>)), Entry("status", Str("failure")) }
TwoKeyDocs ==
    {Map(<<r, s>>) : r \in ResultEntries, s \in SiblingEntries}
        \cup {Map(<<s, r>>) : r \in ResultEntries, s \in SiblingEntries}
        \cup {Map(<<Entry("error", ErrorObject("m", "d")), Entry("status", Str("failure"))>>)}
Bodies == ArrayDocs \cup SingleDocs \cup ErrorDocs \cup OtherDocs \cup TwoKeyDocs

Statuses == {200, StatusDeleted, 302, StatusNotFound, 500}
Methods == {"GET", "DELETE"}
Responses == [status_code : Statuses, method : Methods, body : Bodies]

\* requests.Response.raise_for_status raises HTTPError for 4xx and 5xx
raise_for_status(status_code) == status_code >= 400 /\ status_code < 600

Accessors == {"all", "first", "first_or_none", "one", "one_or_none"}

(***************************************************************************)
(* OAuthClient: tokens and sessions.  A token argument is any Python       *)
(* value; kind is its type, keys its keys (or elements), val its content.  *)
(***************************************************************************)
Token(kind, keys, val) == [kind |-> kind, keys |-> keys, val |-> val]
\* `token = None`, line 24 and line 71
NoToken == Token("None", {}, "")
\* line 74
expected_keys ==
    {"token_type", "refresh_token", "access_token", "scope", "expires_in", "expires_at"}
\* what set_token is called with
TokenArgs ==
    {NoToken, Token("dict", {}, ""), Token("str", {}, ""), Token("int", {}, "0"),
     Token("int", {}, "7"), Token("str", {"a", "b"}, "ab"),
     Token("list", expected_keys, ""),
     Token("dict", {"access_token"}, "t1"),
     Token("dict", expected_keys, "t1"), Token("dict", expected_keys, "t2"),
     Token("dict", expected_keys \cup {"extra"}, "t1")}
      \cup {Token("dict", expected_keys \ {k}, "t1") : k \in expected_keys}
\* line 70: the truth value of the argument
Truthy(t) ==
    IF t.kind = "None" THEN FALSE
    ELSE IF t.kind = "int" THEN t.val # "0"
    ELSE IF t.kind = "str" THEN t.val # ""
    ELSE t.keys # {}
\* line 75 without the test of the keys
InvalidTokenNotDict(t) == t.kind # "dict"
\* line 75
InvalidToken(t) == t.kind # "dict" \/ ~(expected_keys \subseteq t.keys)
\* lines 90 and 106
IsDict(t) == t.kind = "dict"

\* a session object: the id-th one created, built with the token tok
OAuth2Session(id, kind, tok) == [id |-> id, kind |-> kind, token |-> tok]
NoSession == OAuth2Session(0, "none", NoToken)
\* _get_oauth_session that keeps a session once it has one
GetOAuthSessionCached(id, current, tok) ==
    IF current.kind = "oauth" THEN current ELSE OAuth2Session(id, "oauth", tok)
\* _get_oauth_session, lines 54-62: a new session built from self.token
GetOAuthSession(id, current, tok) == OAuth2Session(id, "oauth", tok)

\* what the last call on the client was and how it ended
CallResult(op, arg, kind, exc, before, prev, seen) ==
    [op |-> op, arg |-> arg, kind |-> kind, exc |-> exc,
     before |-> before, prev |-> prev, seen |-> seen]
NoCall == CallResult("none", NoToken, "none", "", NoSession, NoToken, NoSession)
\* how Client.resource ends (line 103) and how Client._legacy_request ends
ParentOutcomes(op) ==
    IF op = "resource" THEN {<<"return", "">>, <<"raise", "InvalidUsage">>}
    ELSE {<<"return", "">>}
\* session.fetch_token: a token, or an OAuth2Error
Fetched == {Token("dict", expected_keys, "t1"), Token("dict", expected_keys, "t2")}

(***************************************************************************)
(* State.                                                                  *)
(*   response, raise_on_empty, count : the fields of the Response object   *)
(*   raw_read     : the raw body stream has been read by a tokenizer       *)
(*   calls, accessor, pending, pulled, outcome : the caller: the accessor  *)
(*                  it is in, whether a next() is in progress, the records *)
(*                  it has received from the sequence, how the call ended  *)
(*   signal       : what the last next() on the sequence gave: "record",   *)
(*                  "stop" (StopIteration) or the exception raised         *)
(*   gate         : where the generator _get_validated_response stands     *)
(*   line         : where the generator _parse_response stands             *)
(*   pos          : parse events this pass has taken from the tokenizer    *)
(*   has_result_single, has_result_many, has_error, builder : its locals   *)
(*   yielded      : records this pass has yielded (lines 78, 87 and 105)   *)
(*   passes       : how often the body has been handed to _parse_response  *)
(*   aliases      : the records in pulled that are the very object that    *)
(*                  builder.value is bound to (line 78 and line 87 yield   *)
(*                  builder.value itself, not a copy)                      *)
(***************************************************************************)
VARIABLES response, raise_on_empty, count, raw_read,
          calls, accessor, pending, pulled, outcome, signal,
          gate, line, pos, has_result_single, has_result_many, has_error, builder,
          yielded, passes, aliases,
          token, session, created, result

object == <<response, raise_on_empty, count, raw_read>>
caller == <<calls, accessor, pending, pulled, outcome, signal>>
locals == <<line, pos, has_result_single, has_result_many, has_error, builder, yielded,
            aliases>>
vars == <<response, raise_on_empty, count, raw_read,
          calls, accessor, pending, pulled, outcome, signal,
          gate, line, pos, has_result_single, has_result_many, has_error, builder,
          yielded, passes, aliases,
          token, session, created, result>>
\* the Response, and the OAuthClient
parser == <<response, raise_on_empty, count, raw_read,
            calls, accessor, pending, pulled, outcome, signal,
            gate, line, pos, has_result_single, has_result_many, has_error, builder,
            yielded, passes, aliases>>
client == <<token, session, created, result>>

\* how an accessor call ended
None == Scalar("None", "")
Running == [kind |-> "none", exc |-> "", value |-> NoValue]
Returned(v) == [kind |-> "return", exc |-> "", value |-> v]
Raised(e, v) == [kind |-> "raise", exc |-> e, value |-> v]
\* the sequence returned by all() was iterated to its end
Exhausted == [kind |-> "exhausted", exc |-> "", value |-> NoValue]

\* Response.__init__, and OAuthClient.__init__ (lines 36-46: a session without
\* a token, and the class attribute token = None)
Init ==
    /\ response \in Responses
    /\ raise_on_empty \in BOOLEAN
    /\ count = 0
    /\ raw_read = FALSE
    /\ calls = 0
    /\ accessor = "none"
    /\ pending = FALSE
    /\ pulled = <<>>
    /\ outcome = Running
    /\ signal = "none"
    /\ gate = "none"
    /\ line = "none"
    /\ pos = 0
    /\ has_result_single = FALSE
    /\ has_result_many = FALSE
    /\ has_error = FALSE
    /\ builder = ObjectBuilder
    /\ yielded = 0
    /\ passes = 0
    /\ aliases = {}
    /\ token = NoToken
    /\ session = OAuth2Session(0, "legacy", NoToken)
    /\ created = 0
    /\ result = NoCall

(***************************************************************************)
(* What the accessor in progress does with the result of its next().       *)
(***************************************************************************)
\* first() written so that it drains the sequence instead of returning at once
OnRecordFirstDrains(rec) ==
    IF accessor \in {"one", "one_or_none"} /\ Len(pulled) >= 1
    THEN Raised("MultipleResults", NoValue)
    ELSE Running

\* next() gave the record rec
OnRecord(rec) ==
    IF accessor \in {"first", "first_or_none"} THEN Returned(rec)
    ELSE IF accessor \in {"one", "one_or_none"} /\ Len(pulled) >= 1
    THEN Raised("MultipleResults", NoValue)
    ELSE Running

\* the *_or_none accessors with a bare `except:` in place of `except NoResults:`
OnRaiseCatchesAll(e, v) ==
    IF accessor \in {"first_or_none", "one_or_none"} THEN Returned(None) ELSE Raised(e, v)

\* next() raised the exception e
OnRaise(e, v) ==
    IF accessor \in {"first_or_none", "one_or_none"} /\ e = "NoResults" THEN Returned(None)
    ELSE Raised(e, v)

\* next() raised StopIteration
OnStop ==
    IF accessor = "all" THEN Exhausted
    ELSE IF accessor \in {"one", "one_or_none"} /\ Len(pulled) >= 1 THEN Returned(pulled[1])
    ELSE Raised("StopIteration", NoValue)

\* the caller's next() returns rec; held is what the caller holds by then
DeliverAfter(held, rec) ==
    /\ pending' = FALSE
    /\ pulled' = Append(held, rec)
    /\ outcome' = OnRecord(rec)
    /\ signal' = "record"
    /\ UNCHANGED <<calls, accessor>>

Deliver(rec) == DeliverAfter(pulled, rec)

Throw(e, v) ==
    /\ pending' = FALSE
    /\ outcome' = OnRaise(e, v)
    /\ signal' = e
    /\ gate' = "finished"
    /\ UNCHANGED <<calls, accessor, pulled>>

Stop ==
    /\ pending' = FALSE
    /\ outcome' = OnStop
    /\ signal' = "stop"
    /\ gate' = "finished"
    /\ UNCHANGED <<calls, accessor, pulled>>

(***************************************************************************)
(* The caller.                                                             *)
(***************************************************************************)
\* one() without its line 181
SetsRaiseOnEmptyNotOne(a) == a \in {"first", "first_or_none"}
\* first() and one() set self._raise_on_empty = True before they call all()
SetsRaiseOnEmpty(a) == a \in {"first", "first_or_none", "one", "one_or_none"}

\* the caller calls an accessor; all() only builds the chained generator
Call(a) ==
    /\ UNCHANGED client
    /\ ~pending
    /\ accessor = "none" \/ outcome.kind # "none"
    /\ calls < MaxCalls
    /\ calls' = calls + 1
    /\ accessor' = a
    /\ raise_on_empty' = (IF SetsRaiseOnEmpty(a) THEN TRUE ELSE raise_on_empty)
    /\ pulled' = <<>>
    /\ outcome' = Running
    /\ signal' = "none"
    /\ gate' = "created"
    /\ line' = "none"
    /\ aliases' = {}
    /\ UNCHANGED <<response, count, raw_read, pending, pos,
                   has_result_single, has_result_many, has_error, builder, yielded, passes>>

\* next() on the sequence returned by all()
PullNext ==
    /\ UNCHANGED client
    /\ accessor # "none"
    /\ outcome.kind = "none"
    /\ ~pending
    /\ pending' = TRUE
    /\ signal' = "none"
    /\ UNCHANGED <<object, calls, accessor, pulled, outcome, gate, locals, passes>>

(***************************************************************************)
(* _get_validated_response.                                                *)
(***************************************************************************)
\* `yield self._parse_response()`: a new generator, its body not yet begun
StartPass ==
    /\ gate' = "line139"
    /\ line' = "loop"
    /\ pos' = 0
    /\ has_result_single' = FALSE
    /\ has_result_many' = FALSE
    /\ has_error' = FALSE
    /\ builder' = ObjectBuilder
    /\ yielded' = 0
    /\ passes' = passes + 1
    /\ aliases' = {}

\* line 122 with the wrong success status
IsDeletedWrongStatus(r) == r.method = "DELETE" /\ r.status_code = 200
IsDeleted(r) == r.method = "DELETE" /\ r.status_code = StatusDeleted

\* line 130 with the test of the status left out
IsNotFoundAlways(r) == TRUE
IsNotFound(r) == r.status_code = StatusNotFound

\* the first next(): lines 120-139
GateStart ==
    /\ UNCHANGED client
    /\ pending
    /\ gate = "created"
    /\ IF IsDeleted(response)
       THEN /\ Deliver(DeletedRecord)
            /\ gate' = "line123"
            /\ UNCHANGED <<object, locals, passes>>
       ELSE IF raise_for_status(response.status_code)
       THEN IF IsNotFound(response)
            THEN IF raise_on_empty = TRUE
                 THEN /\ Throw("NoResults", NoValue)
                      /\ UNCHANGED <<object, locals, passes>>
                 ELSE /\ Deliver(EmptyRecord)
                      /\ gate' = "line134"
                      /\ UNCHANGED <<object, locals, passes>>
            ELSE /\ Throw("HTTPError", NoValue)
                 /\ UNCHANGED <<object, locals, passes>>
       ELSE /\ StartPass
            /\ UNCHANGED <<object, caller>>

\* resumed after `yield [{'status': 'record deleted'}]`: the generator ends
GateResumeDeleted ==
    /\ UNCHANGED client
    /\ pending
    /\ gate = "line123"
    /\ Stop
    /\ UNCHANGED <<object, locals, passes>>

\* resumed after `yield [{}]` in the except clause: control leaves the try
\* statement and reaches line 139
GateResumeNotFound ==
    /\ UNCHANGED client
    /\ pending
    /\ gate = "line134"
    /\ StartPass
    /\ UNCHANGED <<object, caller>>

(***************************************************************************)
(* _parse_response.                                                        *)
(***************************************************************************)
Events == ijson_parse(response.body)

\* line 60 without the test of the event
MatchedErrorAnyEvent(e) == e.prefix = "error"
\* line 60 and line 64: the event opens a root `error` object, a root `result`
MatchedError(e) == e.prefix = "error" /\ e.event = "start_map"
MatchedResult(e) == e.prefix = "result" /\ e.event \in {"start_map", "start_array"}

\* line 69 without the test of the kind of container: every root `result` is many
NextHasManyAnyResult(e) == has_result_many \/ MatchedResult(e)

\* lines 60-70: the locals after the event has been matched
NextHasError(e) == has_error \/ MatchedError(e)
NextHasSingle(e) == has_result_single \/ (MatchedResult(e) /\ e.event = "start_map")
NextHasMany(e) == has_result_many \/ (MatchedResult(e) /\ e.event = "start_array")
NextBuilder(e) == IF MatchedError(e) \/ MatchedResult(e) THEN ObjectBuilder ELSE builder

\* line 74 with start_map in place of end_map: an item is yielded when it opens
DispatchYieldsOnStart(many, single, error, e) ==
    IF many
    THEN IF e.prefix = "result.item" /\ e.event = "start_map" THEN "yield"
         ELSE IF StartsWith(e.prefix, "result.item") THEN "feed"
         ELSE "skip"
    ELSE IF single
    THEN IF e.prefix = "result" /\ e.event = "end_map" THEN "yield"
         ELSE IF StartsWith(e.prefix, "result") THEN "feed"
         ELSE "skip"
    ELSE IF error
    THEN IF e.prefix = "error" /\ e.event = "end_map" THEN "raise"
         ELSE IF StartsWith(e.prefix, "error") THEN "feed"
         ELSE "skip"
    ELSE "skip"

\* line 74 with startswith in place of ==: every map that closes inside an item
\* yields
DispatchYieldsNested(many, single, error, e) ==
    IF many
    THEN IF StartsWith(e.prefix, "result.item") /\ e.event = "end_map" THEN "yield"
         ELSE IF StartsWith(e.prefix, "result.item") THEN "feed"
         ELSE "skip"
    ELSE IF single
    THEN IF e.prefix = "result" /\ e.event = "end_map" THEN "yield"
         ELSE IF StartsWith(e.prefix, "result") THEN "feed"
         ELSE "skip"
    ELSE IF error
    THEN IF e.prefix = "error" /\ e.event = "end_map" THEN "raise"
         ELSE IF StartsWith(e.prefix, "error") THEN "feed"
         ELSE "skip"
    ELSE "skip"

\* line 88 with == in place of startswith: the events below `result` are dropped
DispatchSingleExact(many, single, error, e) ==
    IF many
    THEN IF e.prefix = "result.item" /\ e.event = "end_map" THEN "yield"
         ELSE IF StartsWith(e.prefix, "result.item") THEN "feed"
         ELSE "skip"
    ELSE IF single
    THEN IF e.prefix = "result" /\ e.event = "end_map" THEN "yield"
         ELSE IF e.prefix = "result" THEN "feed"
         ELSE "skip"
    ELSE IF error
    THEN IF e.prefix = "error" /\ e.event = "end_map" THEN "raise"
         ELSE IF StartsWith(e.prefix, "error") THEN "feed"
         ELSE "skip"
    ELSE "skip"

\* lines 72-97: what is done with the event, given the locals after lines 60-70
Dispatch(many, single, error, e) ==
    IF many
    THEN IF e.prefix = "result.item" /\ e.event = "end_map" THEN "yield"
         ELSE IF StartsWith(e.prefix, "result.item") THEN "feed"
         ELSE "skip"
    ELSE IF single
    THEN IF e.prefix = "result" /\ e.event = "end_map" THEN "yield"
         ELSE IF StartsWith(e.prefix, "result") THEN "feed"
         ELSE "skip"
    ELSE IF error
    THEN IF e.prefix = "error" /\ e.event = "end_map" THEN "raise"
         ELSE IF StartsWith(e.prefix, "error") THEN "feed"
         ELSE "skip"
    ELSE "skip"

\* the first read of a tokenizer finds no document: the body is empty, or an
\* earlier pass has read the raw stream (it cannot be rewound)
NothingToParse == pos = 0 /\ (raw_read \/ response.body = NoValue)

\* the tokenizer fails on its first read
TokenizerError ==
    /\ UNCHANGED client
    /\ pending
    /\ gate = "line139"
    /\ line = "loop"
    /\ NothingToParse
    /\ raw_read' = TRUE
    /\ line' = "finished"
    /\ Throw("JSONError", NoValue)
    /\ UNCHANGED <<response, raise_on_empty, count, pos,
                   has_result_single, has_result_many, has_error, builder, yielded, passes,
                   aliases>>

\* lines 77 and 86 left out
IncrementCountSkipped == count
\* lines 77 and 86: self.count += 1
IncrementCount == count + 1

\* one turn of the for loop of line 59
ParseEvent ==
    /\ UNCHANGED client
    /\ pending
    /\ gate = "line139"
    /\ line = "loop"
    /\ ~NothingToParse
    /\ pos < Len(Events)
    /\ LET e == Events[pos + 1]
           b == NextBuilder(e)
           what == Dispatch(NextHasMany(e), NextHasSingle(e), NextHasError(e), e)
           \* the handed records that are still the object b.value is bound to
           same == IF b = builder THEN aliases ELSE {}
           fed == BuilderEvent(b, e.event, e.value)
           kept == IF Rebinds(b, e.event) THEN {} ELSE same
           \* the caller's records after the event: an aliased one changes with
           \* the object it is
           held == [i \in 1..Len(pulled) |-> IF i \in kept THEN fed.value ELSE pulled[i]]
       IN /\ pos' = pos + 1
          /\ raw_read' = TRUE
          /\ has_error' = NextHasError(e)
          /\ has_result_single' = NextHasSingle(e)
          /\ has_result_many' = NextHasMany(e)
          /\ passes' = passes
          /\ UNCHANGED <<response, raise_on_empty>>
          /\ IF what = "yield"
             THEN /\ builder' = fed
                  /\ count' = IncrementCount
                  /\ yielded' = yielded + 1
                  /\ aliases' = kept \cup {Len(pulled) + 1}
                  /\ DeliverAfter(held, fed.value)
                  /\ UNCHANGED <<gate, line>>
             ELSE IF what = "feed"
             THEN /\ builder' = fed
                  /\ aliases' = kept
                  /\ pulled' = held
                  /\ UNCHANGED <<count, yielded, calls, accessor, pending, outcome, signal,
                                 gate, line>>
             ELSE IF what = "raise"
             THEN /\ builder' = b
                  /\ line' = "finished"
                  /\ aliases' = same
                  /\ Throw("ResponseError", b.value)
                  /\ UNCHANGED <<count, yielded>>
             ELSE /\ builder' = b
                  /\ aliases' = same
                  /\ UNCHANGED <<count, yielded, caller, gate, line>>

\* line 107: none of the expected keys were found
NothingMatched == ~(has_result_single \/ has_result_many \/ has_error)
\* line 99 without has_result_many
ResultsEmptySingleOnly == has_result_single /\ count = 0
\* line 99: results empty
ResultsEmpty == (has_result_single \/ has_result_many) /\ count = 0

\* lines 107-108, and the end of both generators
FinishPass ==
    /\ line' = "finished"
    /\ yielded' = yielded
    /\ IF NothingMatched THEN Throw("MissingResult", NoValue) ELSE Stop

\* the event stream is exhausted: lines 99-108
ParseEnd ==
    /\ UNCHANGED client
    /\ pending
    /\ gate = "line139"
    /\ line = "loop"
    /\ ~NothingToParse
    /\ pos = Len(Events)
    /\ UNCHANGED <<object, pos, has_result_single, has_result_many, has_error, builder, passes,
                   aliases>>
    /\ IF ResultsEmpty
       THEN IF raise_on_empty = TRUE
            THEN /\ line' = "finished"
                 /\ yielded' = yielded
                 /\ Throw("NoResults", NoValue)
            ELSE /\ line' = "line105"
                 /\ yielded' = yielded + 1
                 /\ Deliver(EmptyRecord)
                 /\ UNCHANGED gate
       ELSE FinishPass

\* resumed after `yield {}` of line 105
ParseResumeEmpty ==
    /\ UNCHANGED client
    /\ pending
    /\ gate = "line139"
    /\ line = "line105"
    /\ FinishPass
    /\ UNCHANGED <<object, pos, has_result_single, has_result_many, has_error, builder, passes,
                   aliases>>

Next ==
    \/ \E a \in Accessors : Call(a)
    \/ PullNext
    \/ GateStart
    \/ GateResumeDeleted
    \/ GateResumeNotFound
    \/ TokenizerError
    \/ ParseEvent
    \/ ParseEnd
    \/ ParseResumeEmpty

Spec == Init /\ [][Next]_vars

(***************************************************************************)
(* OAuthClient.                                                            *)
(***************************************************************************)
\* set_token(t), lines 70-78
SetToken(t) ==
    /\ UNCHANGED <<parser, session, created>>
    /\ IF ~Truthy(t)
       THEN /\ token' = NoToken
            /\ result' = CallResult("set_token", t, "return", "", session, token, NoSession)
       ELSE IF InvalidToken(t)
       THEN /\ token' = token
            /\ result' = CallResult("set_token", t, "raise", "InvalidUsage",
                                    session, token, NoSession)
       ELSE /\ token' = t
            /\ result' = CallResult("set_token", t, "return", "", session, token, NoSession)

\* resource() and _legacy_request(): lines 106-110 and lines 90-94
Delegate(op) ==
    /\ UNCHANGED <<parser, token>>
    /\ IF IsDict(token)
       THEN /\ created < MaxSessions
            /\ created' = created + 1
            /\ session' = GetOAuthSession(created + 1, session, token)
            /\ \E out \in ParentOutcomes(op) :
                 result' = CallResult(op, NoToken, out[1], out[2], session, token, session')
       ELSE /\ UNCHANGED <<session, created>>
            /\ result' = CallResult(op, NoToken, "raise", "MissingToken",
                                    session, token, NoSession)

Resource == Delegate("resource")
LegacyRequest == Delegate("_legacy_request")

\* generate_token(user, password), lines 122-129: the session fetches a token
\* and keeps it; the client's token is not set
GenerateToken ==
    /\ UNCHANGED <<parser, token, created>>
    /\ \/ \E t \in Fetched :
            /\ session' = [session EXCEPT !.token = t]
            /\ result' = CallResult("generate_token", t, "return", "",
                                    session, token, NoSession)
       \/ /\ session' = session
          /\ result' = CallResult("generate_token", NoToken, "raise", "TokenCreateError",
                                  session, token, NoSession)

OAuthInit ==
    /\ Init
    /\ response = [status_code |-> 200, method |-> "GET", body |-> NoValue]
    /\ raise_on_empty = FALSE

OAuthNext ==
    \/ \E t \in TokenArgs : SetToken(t)
    \/ Resource
    \/ LegacyRequest
    \/ GenerateToken

OAuthSpec == OAuthInit /\ [][OAuthNext]_vars

(***************************************************************************)
(* Vocabulary of the properties.                                           *)
(***************************************************************************)
\* the first accessor call on a Response: count was 0 and the stream unread
FirstCall == calls = 1
Finished == outcome.kind # "none"
IsPrefix(p, q) == Len(p) <= Len(q) /\ \A i \in 1..Len(p) : p[i] = q[i]
\* the document is {k: ...}
RootIs(k) ==
    /\ response.body.kind = "map"
    /\ Len(response.body.items) = 1
    /\ response.body.items[1].key = k
RootValue == response.body.items[1].v
\* the n objects of {"result": [o1, ..., on]}, in document order
ResultIsArrayOfObjects ==
    /\ RootIs("result")
    /\ RootValue.kind = "array"
    /\ \A i \in 1..Len(RootValue.items) : RootValue.items[i].v.kind = "map"
SourceItems == [i \in 1..Len(RootValue.items) |-> RootValue.items[i].v]
ResultIsObject == RootIs("result") /\ RootValue.kind = "map"
DeleteNoContent == response.method = "DELETE" /\ response.status_code = 204
\* a 2xx status that is not the DELETE/204 case
Successful ==
    /\ response.status_code >= 200
    /\ response.status_code < 300
    /\ ~DeleteNoContent
\* the status check of line 127 raises
FailureStatus == response.status_code >= 400 /\ response.status_code < 600

(***************************************************************************)
(* C1.  A successful response {"result": [o1, ..., on]}, n >= 1: iterating *)
(* all() on a fresh Response gives o1..on, each equal to its source        *)
(* object, in document order, nothing else, and count = n at the end.      *)
(***************************************************************************)
C1_ArrayYieldsItemsInOrder ==
    (FirstCall /\ accessor = "all" /\ Successful
        /\ ResultIsArrayOfObjects /\ Len(SourceItems) >= 1)
    => /\ outcome.kind \in {"none", "exhausted"}
       /\ IsPrefix(pulled, SourceItems)
       /\ count = Len(pulled)
       /\ outcome.kind = "exhausted"
            => (Len(pulled) = Len(SourceItems) /\ count = Len(SourceItems))

C1_Witness ==
    /\ FirstCall /\ accessor = "all" /\ Successful
    /\ ResultIsArrayOfObjects
    /\ outcome.kind = "exhausted"
    /\ pulled = <<O2, O1>>
    /\ count = 2

(***************************************************************************)
(* C2.  A successful response {"result": {...}}: iterating all() on a      *)
(* fresh Response gives exactly one record, equal to the object, and       *)
(* count = 1 afterwards.                                                   *)
(***************************************************************************)
C2_ObjectYieldsOneRecord ==
    (FirstCall /\ accessor = "all" /\ Successful /\ ResultIsObject)
    => /\ outcome.kind \in {"none", "exhausted"}
       /\ IsPrefix(pulled, <<RootValue>>)
       /\ outcome.kind = "exhausted" => (pulled = <<RootValue>> /\ count = 1)

C2_Witness ==
    /\ FirstCall /\ accessor = "all" /\ Successful
    /\ ResultIsObject
    /\ outcome.kind = "exhausted"
    /\ pulled = <<O2>>
    /\ count = 1

(***************************************************************************)
(* C3.  The event stream ends, the document matched `result` and count is  *)
(* 0: with raise-on-empty the pass fails with NoResults and has yielded no *)
(* record; otherwise it yields exactly one {} and then ends.  {"result":   *)
(* []} gives one {} without raise-on-empty and NoResults with it.          *)
(***************************************************************************)
AtEndOfStream ==
    pending /\ gate = "line139" /\ line = "loop" /\ pos > 0 /\ pos = Len(Events)
MatchedResultEmpty == (has_result_single \/ has_result_many) /\ count = 0

C3_EmptyResult ==
    /\ [][(AtEndOfStream /\ MatchedResultEmpty)
            => IF raise_on_empty
               THEN signal' = "NoResults" /\ pulled' = pulled /\ yielded' = 0
               ELSE /\ signal' = "record"
                    /\ pulled' = Append(pulled, EmptyRecord)
                    /\ yielded' = 1
                    /\ line' = "line105"]_vars
    /\ [][(pending /\ line = "line105")
            => (signal' = "stop" /\ pulled' = pulled /\ yielded' = yielded)]_vars
    /\ []((FirstCall /\ accessor = "all" /\ Successful
              /\ RootIs("result") /\ RootValue = Arr(<<>>) /\ Finished)
            => IF raise_on_empty
               THEN outcome = Raised("NoResults", NoValue) /\ pulled = <<>>
               ELSE outcome = Exhausted /\ pulled = <<EmptyRecord>>)

C3_Witness ==
    /\ FirstCall /\ accessor = "all" /\ Successful
    /\ RootIs("result") /\ RootValue = Arr(<<>>)
    /\ ~raise_on_empty
    /\ outcome = Exhausted
    /\ pulled = <<EmptyRecord>>
    /\ yielded = 1

(***************************************************************************)
(* C4.  The body handed to the parser is {"error": {"message": m,          *)
(* "detail": d}}: the accessor fails with ResponseError carrying message m *)
(* and detail d, and no record is yielded or returned.                     *)
(***************************************************************************)
IsErrorDocument ==
    /\ RootIs("error")
    /\ HasKey(RootValue, "message")
    /\ HasKey(RootValue, "detail")

C4_ErrorDocumentRaises ==
    (FirstCall /\ passes >= 1 /\ IsErrorDocument)
    => /\ pulled = <<>>
       /\ Finished => /\ outcome.kind = "raise"
                      /\ outcome.exc = "ResponseError"
                      /\ HasKey(outcome.value, "message")
                      /\ HasKey(outcome.value, "detail")
                      /\ Get(outcome.value, "message") = Get(RootValue, "message")
                      /\ Get(outcome.value, "detail") = Get(RootValue, "detail")

(***************************************************************************)
(* C5.  A root `error` object always takes effect: the event that closes   *)
(* it, ('error', end_map), makes the pass raise ResponseError, whatever    *)
(* came before it in the document.                                         *)
(***************************************************************************)
C5_ErrorAlwaysRaises ==
    (FirstCall /\ passes = 1 /\ pos > 0 /\ Events[pos] = Ev("error", "end_map", ""))
    => signal = "ResponseError"

(***************************************************************************)
(* C6.  The event stream is exhausted and the root matched neither         *)
(* `result` (object or array) nor `error` (object): the accessor fails     *)
(* with MissingResult and the pass has yielded no record.                  *)
(***************************************************************************)
NoRootMatch ==
    /\ response.body.kind = "map"
    /\ \A i \in 1..Len(response.body.items) :
          LET en == response.body.items[i]
          IN /\ ~(en.key = "result" /\ en.v.kind \in {"map", "array"})
             /\ ~(en.key = "error" /\ en.v.kind = "map")

C6_MissingResult ==
    (FirstCall /\ passes = 1 /\ NoRootMatch)
    => /\ yielded = 0
       /\ count = 0
       /\ (line = "finished" /\ pos = Len(Events))
            => (signal = "MissingResult" /\ outcome = Raised("MissingResult", NoValue))
       /\ Finished => (line = "finished" /\ pos = Len(Events))

C6_Witness ==
    /\ FirstCall /\ passes = 1
    /\ response.body = Map(<<Entry("unexpected", Num("1"))>>)
    /\ accessor = "one_or_none"
    /\ outcome = Raised("MissingResult", NoValue)
    /\ pulled = <<>>

(***************************************************************************)
(* C7.  Status 404: with raise-on-empty all() fails with NoResults before  *)
(* any record; without it the sequence is one empty record and then ends   *)
(* normally, whatever the (well-formed) body contains.                     *)
(***************************************************************************)
C7_NotFound ==
    (FirstCall /\ accessor = "all" /\ response.status_code = 404
        /\ response.body.kind = "map")
    => IF raise_on_empty
       THEN pulled = <<>> /\ (Finished => outcome = Raised("NoResults", NoValue))
       ELSE IsPrefix(pulled, <<EmptyRecord>>) /\ outcome.kind \in {"none", "exhausted"}

(***************************************************************************)
(* C8.  DELETE with status 204: all() yields exactly one record            *)
(* {"status": "record deleted"} and ends; the body is never read, count    *)
(* stays 0, whatever raise-on-empty is.                                    *)
(***************************************************************************)
C8_DeleteShortCircuit ==
    (FirstCall /\ accessor = "all" /\ DeleteNoContent)
    => /\ passes = 0 /\ pos = 0 /\ ~raw_read
       /\ count = 0
       /\ outcome.kind \in {"none", "exhausted"}
       /\ IsPrefix(pulled, <<DeletedRecord>>)
       /\ signal # "none" => pulled = <<DeletedRecord>>
       /\ outcome.kind = "exhausted" => pulled = <<DeletedRecord>>

C8_Witness ==
    /\ FirstCall /\ accessor = "all" /\ DeleteNoContent
    /\ raise_on_empty
    /\ response.body # NoValue
    /\ outcome = Exhausted
    /\ pulled = <<DeletedRecord>>

(***************************************************************************)
(* C9.  A failure status other than 404: every accessor fails with the     *)
(* HTTP error of the status check; no record is yielded, the body is never *)
(* handed to the parser and count is unchanged.                            *)
(***************************************************************************)
C9_HttpErrorPropagates ==
    (FirstCall /\ FailureStatus /\ response.status_code # 404)
    => /\ passes = 0 /\ pos = 0 /\ ~raw_read
       /\ count = 0
       /\ pulled = <<>>
       /\ signal \in {"none", "HTTPError"}
       /\ Finished => outcome = Raised("HTTPError", NoValue)

C9_Witness ==
    /\ FirstCall /\ response.status_code = 500
    /\ accessor = "first_or_none"
    /\ outcome = Raised("HTTPError", NoValue)
    /\ passes = 0

(***************************************************************************)
(* C10.  one() returns the record when the sequence of all() holds exactly *)
(* one, fails with MultipleResults when it holds two or more, and fails    *)
(* with NoResults when the result set is empty, whatever raise-on-empty    *)
(* was given at construction.                                              *)
(***************************************************************************)
C10_OneCardinality ==
    (FirstCall /\ accessor = "one" /\ Finished)
    => /\ outcome.kind = "return"
            => (Len(pulled) = 1 /\ outcome.value = pulled[1] /\ signal = "stop")
       /\ Len(pulled) >= 2 => outcome = Raised("MultipleResults", NoValue)
       /\ outcome.exc = "MultipleResults" => Len(pulled) = 2
       /\ outcome.exc = "NoResults" => pulled = <<>>
       /\ (Successful /\ ResultIsArrayOfObjects)
            => outcome = IF Len(SourceItems) = 0 THEN Raised("NoResults", NoValue)
                         ELSE IF Len(SourceItems) = 1 THEN Returned(SourceItems[1])
                         ELSE Raised("MultipleResults", NoValue)
       /\ (Successful /\ ResultIsObject) => outcome = Returned(RootValue)
       /\ response.status_code = 404 => outcome = Raised("NoResults", NoValue)
       /\ DeleteNoContent => outcome = Returned(DeletedRecord)

C10_Witness ==
    /\ FirstCall /\ accessor = "one" /\ Successful
    /\ ResultIsArrayOfObjects
    /\ Len(SourceItems) = 2
    /\ outcome = Raised("MultipleResults", NoValue)
    /\ pulled = <<O1, O2>>

(***************************************************************************)
(* C11.  first_or_none() and one_or_none() return None exactly when the    *)
(* sequence fails with NoResults (the case in which first() and one()      *)
(* raise it); ResponseError, MissingResult and the HTTP error pass through *)
(* unchanged, and one_or_none() still fails with MultipleResults on a      *)
(* second record.                                                          *)
(***************************************************************************)
OtherFailures == {"ResponseError", "MissingResult", "HTTPError", "JSONError"}

C11_OrNoneConvertsOnlyNoResults ==
    /\ (accessor \in {"first_or_none", "one_or_none"} /\ Finished)
       => /\ (outcome = Returned(None)) <=> (signal = "NoResults")
          /\ signal \in OtherFailures
               => (outcome.kind = "raise" /\ outcome.exc = signal)
          /\ signal = "ResponseError" => outcome.value = builder.value
          /\ (accessor = "one_or_none" /\ Len(pulled) >= 2)
               => outcome = Raised("MultipleResults", NoValue)
    /\ (accessor \in {"first", "one"} /\ Finished)
       => (outcome = Raised("NoResults", NoValue)) <=> (signal = "NoResults")
    /\ (FirstCall /\ Finished /\ accessor # "all"
          /\ (response.status_code = 404
                \/ (Successful /\ RootIs("result") /\ RootValue = Arr(<<>>))))
       => outcome = IF accessor \in {"first", "one"}
                    THEN Raised("NoResults", NoValue)
                    ELSE Returned(None)

C11_Witness ==
    /\ FirstCall /\ accessor = "one_or_none"
    /\ Successful /\ RootIs("result") /\ RootValue = Arr(<<>>)
    /\ signal = "NoResults"
    /\ outcome = Returned(None)

(***************************************************************************)
(* C12.  Pull discipline.  all() itself checks no status and takes no      *)
(* event; on an array response, when the caller receives the k-th record   *)
(* the tokenizer has given the events up to and including that record's    *)
(* ('result.item', end_map) and none after it.  first() on an array of two *)
(* or more returns o1 with count = 1 and takes no event of the others.     *)
(***************************************************************************)
ItemEnds == {i \in 1..Len(Events) : Events[i] = Ev("result.item", "end_map", "")}
\* the index, among the events, of the event that closes the k-th item
EndIndex(k) == CHOOSE i \in ItemEnds : Cardinality({j \in ItemEnds : j <= i}) = k

C12_PullDiscipline ==
    /\ gate = "created"
       => /\ outcome = Running /\ pulled = <<>> /\ signal = "none"
          /\ FirstCall => (passes = 0 /\ pos = 0 /\ ~raw_read /\ count = 0)
    /\ (FirstCall /\ Successful /\ ResultIsArrayOfObjects /\ SourceItems # <<>>
          /\ signal = "record")
       => /\ pulled = SubSeq(SourceItems, 1, Len(pulled))
          /\ pos = EndIndex(Len(pulled))
          /\ count = Len(pulled)
    /\ (FirstCall /\ accessor = "first" /\ Successful /\ ResultIsArrayOfObjects
          /\ Len(SourceItems) >= 2 /\ Finished)
       => /\ outcome = Returned(SourceItems[1])
          /\ count = 1
          /\ pos = EndIndex(1)
          /\ pos < EndIndex(2)

C12_Witness ==
    /\ FirstCall /\ accessor = "first" /\ Successful
    /\ ResultIsArrayOfObjects /\ Len(SourceItems) = 2
    /\ outcome = Returned(O1)
    /\ count = 1
    /\ pos = EndIndex(1)
    /\ Len(Events) - pos > 10

(***************************************************************************)
(* C15.  As stated: within one pass on a fresh Response count equals the   *)
(* number of records the pass has yielded so far.                          *)
(***************************************************************************)
C15_CountEqualsYielded ==
    (FirstCall /\ passes = 1) => (count >= 0 /\ count = yielded)

\* the pass has yielded the {} of line 105, which stands for an empty result
PlaceholderYielded ==
    /\ yielded = 1
    /\ line \in {"line105", "finished"}
    /\ pos = Len(Events)
    /\ has_result_single \/ has_result_many

(***************************************************************************)
(* C15, amended.  Within one pass on a fresh Response count is never       *)
(* negative, never decreases, grows by exactly one with each record built  *)
(* from the document and yielded, and always equals the number of those    *)
(* records; the {} yielded at the end of the stream for an empty result is *)
(* the one record that is not counted (count stays 0).                     *)
(***************************************************************************)
C15_CountFollowsBuiltRecords ==
    /\ []((FirstCall /\ passes = 1)
            => /\ count >= 0
               /\ count = yielded \/ (count = 0 /\ PlaceholderYielded))
    /\ [][(calls' = 1 /\ passes' = 1 /\ passes = 1)
            => /\ count' \in {count, count + 1}
               /\ yielded' \in {yielded, yielded + 1}
               /\ count' = count + 1 => (yielded' = yielded + 1 /\ signal' = "record")
               /\ (yielded' = yielded + 1 /\ line' # "line105") => count' = count + 1
               /\ line' = "line105" => (count' = 0 /\ count = 0)]_vars

C15_Witness ==
    /\ FirstCall /\ passes = 1 /\ accessor = "all"
    /\ count = 2 /\ yielded = 2 /\ Len(pulled) = 2
    /\ signal = "stop"

(***************************************************************************)
(* C16.  As stated: in every reachable state at most one of the three root *)
(* shape indicators is set, whatever the document.                         *)
(***************************************************************************)
FlagsSet ==
    (IF has_result_single THEN 1 ELSE 0) + (IF has_result_many THEN 1 ELSE 0)
      + (IF has_error THEN 1 ELSE 0)

C16_ShapesExclusive == FlagsSet <= 1

\* the root entries of the document that match a shape
RootEntries == IF response.body.kind = "map" THEN response.body.items ELSE <<>>
MatchingRootEntries ==
    {i \in 1..Len(RootEntries) :
        \/ RootEntries[i].key = "result" /\ RootEntries[i].v.kind \in {"map", "array"}
        \/ RootEntries[i].key = "error" /\ RootEntries[i].v.kind = "map"}

(***************************************************************************)
(* C16, amended.  An indicator is set only by a root `result` object or    *)
(* array or a root `error` object, and none is cleared during a pass: no   *)
(* more indicators are set than the root has such entries, and each one    *)
(* set has its entry.  For a document with at most one such entry at most  *)
(* one indicator is set in every reachable state.                          *)
(***************************************************************************)
C16_ShapesExclusiveOnePerRoot ==
    /\ FlagsSet <= Cardinality(MatchingRootEntries)
    /\ Cardinality(MatchingRootEntries) <= 1 => FlagsSet <= 1
    /\ has_result_single
         => \E i \in MatchingRootEntries :
               RootEntries[i].key = "result" /\ RootEntries[i].v.kind = "map"
    /\ has_result_many
         => \E i \in MatchingRootEntries :
               RootEntries[i].key = "result" /\ RootEntries[i].v.kind = "array"
    /\ has_error => \E i \in MatchingRootEntries : RootEntries[i].key = "error"

C16_Witness ==
    /\ FirstCall /\ passes = 1
    /\ Len(RootEntries) = 2
    /\ Cardinality(MatchingRootEntries) = 1
    /\ has_result_many /\ FlagsSet = 1
    /\ pos = Len(Events)

(***************************************************************************)
(* C17.  As stated: in single-object mode, once ('result', end_map) was    *)
(* fed and the record yielded, no later event is fed into a builder and no *)
(* further record is yielded.                                              *)
(***************************************************************************)
C17_SingleCloseIsTerminal ==
    [][(FirstCall /\ pending /\ gate = "line139" /\ line = "loop"
          /\ has_result_single /\ ~has_result_many /\ yielded >= 1)
         => (yielded' = yielded /\ builder' \in {builder, ObjectBuilder})]_vars

(***************************************************************************)
(* C19.  On a fresh Response the sequence of all() is never empty: for     *)
(* every status, method, flag and well-formed document it gives at least   *)
(* one record before it ends, or fails with NoResults, MissingResult,      *)
(* ResponseError or the HTTP error.  So first(), one() and their *_or_none *)
(* forms never end with a bare StopIteration.                              *)
(***************************************************************************)
\* the body is a JSON document, or the status keeps it from being parsed
WellFormedOrUnparsed ==
    \/ response.body.kind = "map"
    \/ DeleteNoContent
    \/ (FailureStatus /\ response.status_code # 404)

C19_AllNeverEmpty ==
    (FirstCall /\ WellFormedOrUnparsed)
    => /\ signal \in {"none", "record", "stop",
                      "NoResults", "MissingResult", "ResponseError", "HTTPError"}
       /\ signal = "stop" => Len(pulled) >= 1
       /\ outcome = Exhausted => Len(pulled) >= 1
       /\ outcome.kind = "raise"
            => outcome.exc \in {"NoResults", "MissingResult", "ResponseError",
                                "HTTPError", "MultipleResults"}

C19_Witness ==
    /\ FirstCall /\ accessor = "all" /\ Successful
    /\ RootIs("result") /\ RootValue = Arr(<<>>)
    /\ outcome = Exhausted
    /\ pulled = <<EmptyRecord>>
    /\ count = 0

(***************************************************************************)
(* C20.  The accessors change the flag for good: after a call of first(),  *)
(* first_or_none(), one() or one_or_none(), whatever its outcome, the flag *)
(* is true and nothing sets it back, so a later all() on a 404 fails with  *)
(* NoResults instead of yielding {}.  all() and the iteration leave the    *)
(* flag as it is.                                                          *)
(***************************************************************************)
C20_AccessorsSetFlagForGood ==
    /\ [][raise_on_empty => raise_on_empty']_vars
    /\ [][(calls' = calls + 1 /\ accessor' # "all") => raise_on_empty']_vars
    /\ [][(calls' = calls + 1 /\ accessor' = "all")
            => raise_on_empty' = raise_on_empty]_vars
    /\ [][calls' = calls => raise_on_empty' = raise_on_empty]_vars
    /\ []((calls >= 1 /\ accessor # "all") => raise_on_empty)
    /\ []((calls = 2 /\ accessor = "all" /\ raise_on_empty /\ Finished
             /\ response.status_code = 404)
            => (outcome = Raised("NoResults", NoValue) /\ pulled = <<>>))

C20_Witness ==
    /\ calls = 2 /\ accessor = "all"
    /\ response.status_code = 404
    /\ raise_on_empty
    /\ outcome = Raised("NoResults", NoValue)
    /\ pulled = <<>>

(***************************************************************************)
(* C18.  A record handed to the caller is never modified afterwards, and   *)
(* the records yielded for different array items are different objects,    *)
(* although the one builder opened at ('result', start_array) builds all   *)
(* of them: each item's start_map binds builder.value to a new object.     *)
(***************************************************************************)
C18_HandedRecordsStable ==
    /\ [][calls' = calls => IsPrefix(pulled, pulled')]_vars
    /\ [][(calls' = calls /\ Len(pulled') = Len(pulled) + 1 /\ line' = "loop")
            => (aliases' = {Len(pulled')} /\ Len(builder'.containers) = 1)]_vars
    /\ [](Cardinality(aliases) <= 1)
    /\ []((FirstCall /\ Successful /\ ResultIsArrayOfObjects /\ has_result_many)
            => \A i \in 1..Len(pulled) :
                  i <= Len(SourceItems) => pulled[i] = SourceItems[i])

C18_Witness ==
    /\ FirstCall /\ accessor = "all" /\ Successful /\ ResultIsArrayOfObjects
    /\ pulled = <<O2, O1>>
    /\ aliases = {2}
    /\ outcome = Exhausted

(***************************************************************************)
(* C13.  resource() and _legacy_request() fail with MissingToken whenever  *)
(* the token is not a dict (never set, or cleared by set_token), and leave *)
(* the session as it was; when the token is a dict each call first puts a  *)
(* newly created session built from the current token in place of the      *)
(* session, and only then calls the parent.                                *)
(***************************************************************************)
C13_MissingTokenOrNewSession ==
    result.op \in {"resource", "_legacy_request"}
    => /\ token = result.prev
       /\ IF token.kind = "dict"
          THEN /\ session.kind = "oauth"
               /\ session.token = token
               /\ session.id = created
               /\ session.id > result.before.id
               /\ result.seen = session
               /\ result.exc # "MissingToken"
          ELSE /\ result.kind = "raise"
               /\ result.exc = "MissingToken"
               /\ session = result.before
               /\ result.seen = NoSession

C13_Witness ==
    /\ result.op = "resource"
    /\ token = Token("dict", expected_keys, "t2")
    /\ result.before.kind = "oauth"
    /\ result.before.token = Token("dict", expected_keys, "t1")
    /\ session.id = 2
    /\ session.token = token
    /\ result.kind = "return"

(***************************************************************************)
(* C14.  set_token validates before it stores: a falsy argument sets the   *)
(* token to None; a truthy argument that is not a dict, or a dict without  *)
(* one of the six keys, fails with InvalidUsage and leaves the token as it *)
(* was; anything else is stored.  So the stored token is always None or a  *)
(* dict with all six keys.                                                 *)
(***************************************************************************)
Falsy(a) ==
    \/ a.kind = "None"
    \/ a.kind = "int" /\ a.val = "0"
    \/ a.kind = "str" /\ a.val = ""
    \/ a.kind \in {"dict", "list"} /\ a.keys = {}

C14_SetTokenValidates ==
    /\ token.kind = "None" \/ (token.kind = "dict" /\ \A k \in expected_keys : k \in token.keys)
    /\ result.op = "set_token"
       => /\ session = result.before
          /\ IF Falsy(result.arg)
             THEN token = NoToken /\ result.kind = "return"
             ELSE IF result.arg.kind # "dict"
                     \/ \E k \in expected_keys : k \notin result.arg.keys
             THEN /\ result.kind = "raise"
                  /\ result.exc = "InvalidUsage"
                  /\ token = result.prev
             ELSE token = result.arg /\ result.kind = "return"

C14_Witness ==
    /\ result.op = "set_token"
    /\ result.arg = Token("dict", expected_keys \ {"scope"}, "t1")
    /\ result.exc = "InvalidUsage"
    /\ result.prev = Token("dict", expected_keys, "t2")
    /\ token = Token("dict", expected_keys, "t2")

=============================================================================
